---- MODULE Spec2Model ----
(***************************************************************************)
(* Model of wav_silence_trimmer (src/app.py): detect_silence, apply_fade,  *)
(* process_wav_file and process_folder.                                    *)
(*                                                                         *)
(* Representation.  A buffer is a sequence of frames; a frame is a         *)
(* sequence of channel values (one value: numpy shape (T,), two values:    *)
(* shape (T, 2)).  Sample values read from a file are integers (amplitude  *)
(* units); durations, ramp values and faded samples are exact rationals    *)
(* <<n, d>> with d > 0.  Floating-point rounding is not modelled.          *)
(***************************************************************************)
EXTENDS Integers, Sequences, FiniteSets, TLC

VARIABLES
    pc,                    \* position of the running function
    audio_data,            \* the buffer being processed
    given,                 \* the buffer as it was passed to apply_fade
    sr,                    \* sample rate
    min_silence_duration,  \* argument of detect_silence
    fade_duration,         \* argument of apply_fade
    result,                \* what detect_silence returned
    trimmed_audio,         \* audio_data[start_trim:end_trim]
    listing,               \* os.listdir(input_folder)
    idx,                   \* entries of the listing already iterated
    calls,                 \* filenames process_wav_file was called on
    log,                   \* lines printed by process_folder
    outdir                 \* names of the files in output_folder

vars == <<pc, audio_data, given, sr, min_silence_duration, fade_duration,
          result, trimmed_audio, listing, idx, calls, log, outdir>>

(* ------------------------------ bounds --------------------------------- *)

\* longest buffer (frames) given to detect_silence and process_wav_file
MaxLen == 4
\* longest buffer (frames) given to apply_fade alone
MaxFadeLen == 7
\* longest buffer (frames) a file of the batch decodes to
MaxDiskLen == 2
\* most entries in the input directory
MaxFiles == 3

\* sample amplitudes: 1 is 66 dB below 2000
Amp == {-2000, 0, 1}
\* sample amplitudes of the buffers given to apply_fade alone
FadeAmp == {1, -2}
\* sample rates given to detect_silence alone
SampleRates == {4, 8, 10}
\* sample rates of the files read: 0.1 s is at least one sample
FileSampleRates == {10, 12, 20}
FadeSampleRates == {4, 8, 12}
\* min_silence_duration values, seconds
MinSilenceDurations == {<<0, 1>>, <<1, 10>>, <<1, 2>>, <<1, 1>>}
\* fade_duration values, seconds
FadeDurations == {<<0, 1>>, <<1, 4>>}

(* --------------------------- arithmetic -------------------------------- *)

Abs(x) == IF x < 0 THEN -x ELSE x

Max2(a, b) == IF a < b THEN b ELSE a

Min2(a, b) == IF a < b THEN a ELSE b

\* Python int() of the rational n/d (d > 0): truncation toward zero
PyInt(n, d) == IF n >= 0 THEN n \div d ELSE -((-n) \div d)

\* equality of rationals
RatEq(a, b) == a[1] * b[2] = b[1] * a[2]

RatMul(a, b) == <<a[1] * b[1], a[2] * b[2]>>

\* the ramp without its end point: step (b - a)/n
LinspaceAt_NoEndpoint(a, b, n, k) == <<a * n + k * (b - a), n>>

\* np.linspace(a, b, n)[k + 1] for integers a, b: a + k*(b - a)/(n - 1);
\* a single point is the start value
LinspaceAt(a, b, n, k) ==
    IF n = 1 THEN <<a, 1>> ELSE <<a * (n - 1) + k * (b - a), n - 1>>

Linspace(a, b, n) == [k \in 1..n |-> LinspaceAt(a, b, n, k - 1)]

(* ---------------------------- buffers ---------------------------------- *)

\* sequences over S of length 0..n
SeqsUpTo(S, n) == UNION {[1..k -> S] : k \in 0..n}

\* frames of a mono buffer (one channel value) or of a stereo one (two)
Frames(A, st) == IF st THEN [1..2 -> A] ELSE [1..1 -> A]

\* numpy basic slice a[lo:hi] with 0 <= lo, hi already resolved (0-based,
\* hi exclusive); an empty range gives the empty buffer
Slice(buf, lo, hi) ==
    LET l == Min2(lo, Len(buf))
        h == Min2(hi, Len(buf))
    IN  IF h <= l THEN <<>> ELSE SubSeq(buf, l + 1, h)

(* -------------------------- detect_silence ----------------------------- *)

\* threshold_db = -60: db < -60 is ratio < 10^(-60/20) = 1/1000
ThresholdRatio == 1000

RECURSIVE ChannelSum(_)
ChannelSum(f) == IF f = <<>> THEN 0 ELSE Head(f) + ChannelSum(Tail(f))

\* np.abs(np.mean(audio_data, axis=1)) (np.abs(audio_data) when mono), in
\* units of 1/channels: the numerator of the mean, the same denominator for
\* every frame of one buffer
Magnitude(buf) == [i \in 1..Len(buf) |-> Abs(ChannelSum(buf[i]))]

RECURSIVE SeqMax(_)
SeqMax(s) == IF Len(s) = 1 THEN s[1] ELSE Max2(Head(s), SeqMax(Tail(s)))

\* db < threshold_db with db = 20*log10(m/(peak + eps) + eps).  With a zero
\* peak the ratio is eps and every sample is silent; otherwise, eps =
\* 2^-52 being far below one amplitude unit over ThresholdRatio, the
\* comparison is m/peak < 1/ThresholdRatio.
IsSilent(m, peak) == IF peak = 0 THEN TRUE ELSE m * ThresholdRatio < peak

SilenceMask(buf) ==
    LET mag == Magnitude(buf)
        peak == SeqMax(mag)
    IN  [i \in 1..Len(buf) |-> IsSilent(mag[i], peak)]

\* min_silence_duration * sr, a rational
MinSilenceSamples(dur, rate) == <<dur[1] * rate, dur[2]>>

\* all the leading silence removed
StartTrimAt_TrimAll(i, M) == IF i * M[2] > M[1] THEN i ELSE 0

\* the branch taken at the first non-silent index i (0-based)
StartTrimAt(i, M) == IF i * M[2] > M[1] THEN PyInt(i * M[2] - M[1], M[2]) ELSE 0

\* a forward loop that leaves start_trim at the end of a silent buffer
RECURSIVE StartScan_TrimAllSilent(_, _, _)
StartScan_TrimAllSilent(mask, i, M) ==
    IF i >= Len(mask) THEN Len(mask)
    ELSE IF ~mask[i + 1] THEN StartTrimAt(i, M)
    ELSE StartScan_TrimAllSilent(mask, i + 1, M)

\* the forward loop from index i on: start_trim
RECURSIVE StartScan(_, _, _)
StartScan(mask, i, M) ==
    IF i >= Len(mask) THEN 0
    ELSE IF ~mask[i + 1] THEN StartTrimAt(i, M)
    ELSE StartScan(mask, i + 1, M)

\* the trailing branch without its length test
EndTrimAt_NoGuard(i, M, n) == PyInt(i * M[2] + M[1], M[2])

\* the branch taken at the last non-silent index i (0-based), n = len
EndTrimAt(i, M, n) ==
    IF (n - i) * M[2] > M[1] THEN PyInt(i * M[2] + M[1], M[2]) ELSE n

\* the backward loop from index i down: end_trim
RECURSIVE EndScan(_, _, _)
EndScan(mask, i, M) ==
    IF i < 0 THEN Len(mask)
    ELSE IF ~mask[i + 1] THEN EndTrimAt(i, M, Len(mask))
    ELSE EndScan(mask, i - 1, M)

\* detect_silence(audio_data, sr, -60, dur): np.max raises ValueError on a
\* zero-size array
DetectSilence(buf, rate, dur) ==
    IF Len(buf) = 0 THEN [raised |-> TRUE, start_trim |-> 0, end_trim |-> 0]
    ELSE LET mask == SilenceMask(buf)
             M == MinSilenceSamples(dur, rate)
         IN  [raised |-> FALSE,
              start_trim |-> StartScan(mask, 0, M),
              end_trim |-> EndScan(mask, Len(mask) - 1, M)]

(* ----------------------------- apply_fade ------------------------------ *)

\* fade_length = int(fade_duration * sr)
FadeLength(dur, rate) == PyInt(dur[1] * rate, dur[2])

\* a[:L]: stop index clipped to the length
HeadSliceLen(T, L) == Min2(L, T)

\* a[-L:]: start index T - L clipped to 0, and -0 is 0: the whole buffer
TailSliceStart(T, L) == IF L = 0 THEN 0 ELSE Max2(T - L, 0)

\* in-place a[lo:lo+n] *= ramp[:, newaxis] is legal when the ramp has as
\* many values as the slice has frames, or one value (broadcast)
CanBroadcast(n, L) == n = L \/ L = 1

\* the ramp value multiplied onto the k-th frame (1-based) of a slice
RampAt(ramp, k) == IF Len(ramp) = 1 THEN ramp[1] ELSE ramp[k]

\* buf with frames lo+1..lo+n multiplied by the ramp, every channel of a
\* frame by the same value
MulSlice(buf, lo, n, ramp) ==
    [t \in 1..Len(buf) |->
        IF t > lo /\ t <= lo + n
        THEN [c \in 1..Len(buf[t]) |-> RatMul(buf[t][c], RampAt(ramp, t - lo))]
        ELSE buf[t]]

\* apply_fade(audio_data, sr, dur) on a buffer of rationals
ApplyFade(buf, rate, dur) ==
    LET L == FadeLength(dur, rate)
        T == Len(buf)
        fade_in == Linspace(0, 1, L)
        fade_out == Linspace(1, 0, L)
        n1 == HeadSliceLen(T, L)
        lo2 == TailSliceStart(T, L)
    IN  IF ~CanBroadcast(n1, L) THEN [raised |-> TRUE, audio |-> buf]
        ELSE LET b1 == MulSlice(buf, 0, n1, fade_in)
             IN  IF ~CanBroadcast(T - lo2, L) THEN [raised |-> TRUE, audio |-> b1]
                 ELSE [raised |-> FALSE, audio |-> MulSlice(b1, lo2, T - lo2, fade_out)]

\* a decoded integer buffer as a buffer of rationals
AsRational(buf) == [t \in 1..Len(buf) |-> [c \in 1..Len(buf[t]) |-> <<buf[t][c], 1>>]]

(* --------------------------- process_wav_file -------------------------- *)

\* detect_silence's default min_silence_duration = 0.1
DefaultMinSilenceDuration == <<1, 10>>

\* apply_fade's default fade_duration = 0.25
DefaultFadeDuration == <<1, 4>>

\* what sf.read returns for a readable file: buffers of both shapes
Buffers(A, n) == UNION {SeqsUpTo(Frames(A, st), n) : st \in BOOLEAN}

NoResult == [raised |-> FALSE, start_trim |-> 0, end_trim |-> 0]

\* process_wav_file on a file that decodes to (buf, rate) (or is corrupt),
\* wfail: sf.info or sf.write raises.  TRUE when it returns, FALSE when an
\* exception leaves it.
ProcessWavFile(corrupt, buf, rate, wfail) ==
    IF corrupt THEN FALSE
    ELSE LET d == DetectSilence(buf, rate, DefaultMinSilenceDuration)
         IN  IF d.raised THEN FALSE
             ELSE LET trimmed == AsRational(Slice(buf, d.start_trim, d.end_trim))
                      f == ApplyFade(trimmed, rate, DefaultFadeDuration)
                  IN  IF f.raised THEN FALSE ELSE ~wfail

(* ---------------------------- process_folder --------------------------- *)

Names == { <<"a", ".", "w", "a", "v">>,
           <<"b", ".", "W", "a", "V">>,
           <<"c", ".", "W", "A", "V">>,
           <<"a", ".", "w", "a", "v", "e">>,
           <<"w", "a", "v">> }

\* str.lower on one character
LowerChar(ch) ==
    CASE ch = "W" -> "w"
      [] ch = "A" -> "a"
      [] ch = "V" -> "v"
      [] OTHER -> ch

Lower(name) == [k \in 1..Len(name) |-> LowerChar(name[k])]

EndsWith(name, suffix) ==
    /\ Len(name) >= Len(suffix)
    /\ SubSeq(name, Len(name) - Len(suffix) + 1, Len(name)) = suffix

\* filename.lower().endswith('.wav')
IsWav(name) == EndsWith(Lower(name), <<".", "w", "a", "v">>)

\* directory listings: distinct names, any order
Listings ==
    {l \in SeqsUpTo(Names, MaxFiles) : \A a, b \in 1..Len(l) : a # b => l[a] # l[b]}

(* ------------------- specification: detect_silence --------------------- *)

InitDetect ==
    /\ pc = "call_detect"
    /\ audio_data \in Buffers(Amp, MaxLen)
    /\ sr \in SampleRates
    /\ min_silence_duration \in MinSilenceDurations
    /\ fade_duration = DefaultFadeDuration
    /\ given = <<>>
    /\ result = NoResult
    /\ trimmed_audio = <<>>
    /\ listing = <<>>
    /\ idx = 0
    /\ calls = <<>>
    /\ log = <<>>
    /\ outdir = {}

\* start_trim, end_trim = detect_silence(audio_data, sr, -60, min_silence_duration)
DetectCall ==
    /\ pc = "call_detect"
    /\ result' = DetectSilence(audio_data, sr, min_silence_duration)
    /\ pc' = IF result'.raised THEN "detect_raised" ELSE "detected"
    /\ UNCHANGED <<audio_data, given, sr, min_silence_duration, fade_duration,
                   trimmed_audio, listing, idx, calls, log, outdir>>

NextDetect == DetectCall

SpecDetect == InitDetect /\ [][NextDetect]_vars

(* --------------------- specification: apply_fade ----------------------- *)

InitFade ==
    /\ pc = "call_fade"
    /\ audio_data \in {AsRational(b) : b \in Buffers(FadeAmp, MaxFadeLen)}
    /\ given = audio_data
    /\ sr \in FadeSampleRates
    /\ fade_duration \in FadeDurations
    /\ min_silence_duration = DefaultMinSilenceDuration
    /\ result = NoResult
    /\ trimmed_audio = <<>>
    /\ listing = <<>>
    /\ idx = 0
    /\ calls = <<>>
    /\ log = <<>>
    /\ outdir = {}

\* audio_data = apply_fade(audio_data, sr, fade_duration), in place
FadeCall ==
    /\ pc = "call_fade"
    /\ LET f == ApplyFade(audio_data, sr, fade_duration)
       IN  /\ audio_data' = f.audio
           /\ pc' = IF f.raised THEN "fade_raised" ELSE "faded"
    /\ UNCHANGED <<given, sr, min_silence_duration, fade_duration, result,
                   trimmed_audio, listing, idx, calls, log, outdir>>

NextFade == FadeCall

SpecFade == InitFade /\ [][NextFade]_vars

(* ------------------ specification: process_wav_file -------------------- *)

\* the file name process_wav_file is given
ThePath == <<"a", ".", "w", "a", "v">>

InitFile ==
    /\ pc = "read"
    /\ audio_data = <<>>
    /\ given = <<>>
    /\ sr = 0
    /\ min_silence_duration = DefaultMinSilenceDuration
    /\ fade_duration = DefaultFadeDuration
    /\ result = NoResult
    /\ trimmed_audio = <<>>
    /\ listing = <<>>
    /\ idx = 0
    /\ calls = <<>>
    /\ log = <<>>
    /\ outdir = {}

\* audio_data, sr = sf.read(input_path)
Read ==
    /\ pc = "read"
    /\ \E buf \in Buffers(Amp, MaxLen), rate \in FileSampleRates :
          /\ audio_data' = buf
          /\ sr' = rate
    /\ pc' = "detect"
    /\ UNCHANGED <<given, min_silence_duration, fade_duration, result,
                   trimmed_audio, listing, idx, calls, log, outdir>>

\* sf.read raises: not a readable waveform file
ReadRaise ==
    /\ pc = "read"
    /\ pc' = "file_raised"
    /\ UNCHANGED <<audio_data, given, sr, min_silence_duration, fade_duration,
                   result, trimmed_audio, listing, idx, calls, log, outdir>>

\* start_trim, end_trim = detect_silence(audio_data.copy(), sr)
Detect ==
    /\ pc = "detect"
    /\ result' = DetectSilence(audio_data, sr, DefaultMinSilenceDuration)
    /\ pc' = IF result'.raised THEN "file_raised" ELSE "trim"
    /\ UNCHANGED <<audio_data, given, sr, min_silence_duration, fade_duration,
                   trimmed_audio, listing, idx, calls, log, outdir>>

\* trimmed_audio = audio_data[start_trim:end_trim]
Trim ==
    /\ pc = "trim"
    /\ trimmed_audio' = AsRational(Slice(audio_data, result.start_trim, result.end_trim))
    /\ given' = trimmed_audio'
    /\ pc' = "fade"
    /\ UNCHANGED <<audio_data, sr, min_silence_duration, fade_duration, result,
                   listing, idx, calls, log, outdir>>

\* processed_audio = apply_fade(trimmed_audio, sr)
Fade ==
    /\ pc = "fade"
    /\ LET f == ApplyFade(trimmed_audio, sr, DefaultFadeDuration)
       IN  /\ trimmed_audio' = f.audio
           /\ pc' = IF f.raised THEN "file_raised" ELSE "write"
    /\ UNCHANGED <<audio_data, given, sr, min_silence_duration, fade_duration,
                   result, listing, idx, calls, log, outdir>>

\* sf.write(output_path, processed_audio, sr, subtype=...)
Write ==
    /\ pc = "write"
    /\ outdir' = outdir \cup {ThePath}
    /\ pc' = "written"
    /\ UNCHANGED <<audio_data, given, sr, min_silence_duration, fade_duration,
                   result, trimmed_audio, listing, idx, calls, log>>

\* sf.info or sf.write raises; a partial output file may be left behind
WriteRaise ==
    /\ pc = "write"
    /\ \E partial \in BOOLEAN :
          outdir' = IF partial THEN outdir \cup {ThePath} ELSE outdir
    /\ pc' = "file_raised"
    /\ UNCHANGED <<audio_data, given, sr, min_silence_duration, fade_duration,
                   result, trimmed_audio, listing, idx, calls, log>>

NextFile == Read \/ ReadRaise \/ Detect \/ Trim \/ Fade \/ Write \/ WriteRaise

SpecFile == InitFile /\ [][NextFile]_vars

(* ------------------- specification: process_folder --------------------- *)

Init ==
    /\ pc = "makedirs"
    /\ listing \in Listings
    /\ idx = 0
    /\ calls = <<>>
    /\ log = <<>>
    /\ outdir = {}
    /\ audio_data = <<>>
    /\ given = <<>>
    /\ sr = 0
    /\ min_silence_duration = DefaultMinSilenceDuration
    /\ fade_duration = DefaultFadeDuration
    /\ result = NoResult
    /\ trimmed_audio = <<>>

\* if not os.path.exists(output_folder): os.makedirs(output_folder)
MakeDirs ==
    /\ pc = "makedirs"
    /\ pc' = "listdir"
    /\ UNCHANGED <<audio_data, given, sr, min_silence_duration, fade_duration,
                   result, trimmed_audio, listing, idx, calls, log, outdir>>

\* os.makedirs raises, outside any try
MakeDirsRaise ==
    /\ pc = "makedirs"
    /\ pc' = "raised"
    /\ UNCHANGED <<audio_data, given, sr, min_silence_duration, fade_duration,
                   result, trimmed_audio, listing, idx, calls, log, outdir>>

\* os.listdir(input_folder) returns the listing
ListDir ==
    /\ pc = "listdir"
    /\ pc' = "loop"
    /\ UNCHANGED <<audio_data, given, sr, min_silence_duration, fade_duration,
                   result, trimmed_audio, listing, idx, calls, log, outdir>>

\* os.listdir raises, outside any try
ListDirRaise ==
    /\ pc = "listdir"
    /\ pc' = "raised"
    /\ UNCHANGED <<audio_data, given, sr, min_silence_duration, fade_duration,
                   result, trimmed_audio, listing, idx, calls, log, outdir>>

\* one iteration on an entry the filter rejects
SkipEntry ==
    /\ pc = "loop"
    /\ idx < Len(listing)
    /\ ~IsWav(listing[idx + 1])
    /\ idx' = idx + 1
    /\ UNCHANGED <<pc, audio_data, given, sr, min_silence_duration, fade_duration,
                   result, trimmed_audio, listing, calls, log, outdir>>

\* what one call of process_wav_file can do, over every file content and
\* every I/O failure: <<it returned, an output file exists afterwards>>
FileOutcomes ==
    {<<ProcessWavFile(corrupt, buf, rate, wfail),
       ProcessWavFile(corrupt, buf, rate, wfail)
         \/ (wfail /\ partial /\ ProcessWavFile(corrupt, buf, rate, FALSE))>> :
        corrupt \in BOOLEAN, buf \in Buffers(Amp, MaxDiskLen),
        rate \in FileSampleRates, wfail \in BOOLEAN, partial \in BOOLEAN}

\* the iteration without its try/except: a failure leaves process_folder
ProcessEntry_NoCatch ==
    /\ pc = "loop"
    /\ idx < Len(listing)
    /\ IsWav(listing[idx + 1])
    /\ \E o \in FileOutcomes :
          LET filename == listing[idx + 1]
          IN  /\ calls' = Append(calls, filename)
              /\ log' = IF o[1] THEN Append(log, [file |-> filename, ok |-> TRUE])
                        ELSE log
              /\ outdir' = IF o[2] THEN outdir \cup {filename} ELSE outdir
              /\ pc' = IF o[1] THEN pc ELSE "raised"
    /\ idx' = idx + 1
    /\ UNCHANGED <<audio_data, given, sr, min_silence_duration, fade_duration,
                   result, trimmed_audio, listing>>

\* one iteration on a .wav entry: try process_wav_file, print the outcome
ProcessEntry ==
    /\ pc = "loop"
    /\ idx < Len(listing)
    /\ IsWav(listing[idx + 1])
    /\ \E o \in FileOutcomes :
          LET filename == listing[idx + 1]
          IN  /\ calls' = Append(calls, filename)
              /\ log' = Append(log, [file |-> filename, ok |-> o[1]])
              /\ outdir' = IF o[2] THEN outdir \cup {filename} ELSE outdir
    /\ idx' = idx + 1
    /\ UNCHANGED <<pc, audio_data, given, sr, min_silence_duration, fade_duration,
                   result, trimmed_audio, listing>>

\* the listing is exhausted: process_folder returns
LoopExit ==
    /\ pc = "loop"
    /\ idx = Len(listing)
    /\ pc' = "done"
    /\ UNCHANGED <<audio_data, given, sr, min_silence_duration, fade_duration,
                   result, trimmed_audio, listing, idx, calls, log, outdir>>

Next ==
    \/ MakeDirs
    \/ MakeDirsRaise
    \/ ListDir
    \/ ListDirRaise
    \/ SkipEntry
    \/ ProcessEntry
    \/ LoopExit

Spec == Init /\ [][Next]_vars

\* a single thread runs the loop: a step that can be taken is taken
FairSpec == Spec /\ WF_vars(Next)

(* ------------------------------ claims --------------------------------- *)

\* 0-based indices of the samples detect_silence classifies non-silent
NonSilent == {i \in 0..(Len(audio_data) - 1) : ~SilenceMask(audio_data)[i + 1]}

FirstNonSilent == CHOOSE i \in NonSilent : \A k \in NonSilent : i <= k

LastNonSilent == CHOOSE j \in NonSilent : \A k \in NonSilent : k <= j

\* M = min_silence_duration * sr as numerator and denominator
Mn == min_silence_duration[1] * sr

Md == min_silence_duration[2]

\* C2: whenever detect_silence returns on a buffer with a non-silent sample,
\* start_trim is floor(i - M) if the first non-silent index i exceeds M and
\* 0 otherwise.
C2_LeadingTrim ==
    (pc = "detected" /\ NonSilent # {}) =>
        IF FirstNonSilent * Md > Mn
        THEN result.start_trim = (FirstNonSilent * Md - Mn) \div Md
        ELSE result.start_trim = 0

\* three silent samples before the sound and M = 0.4: start_trim = 2
C2_Witness ==
    /\ pc = "detected"
    /\ NonSilent # {}
    /\ FirstNonSilent = 3
    /\ Mn = 4 /\ Md = 10
    /\ result.start_trim = 2

\* C3: whenever detect_silence returns on a buffer with a non-silent sample,
\* end_trim is j + M (as an integer) if length - 1 - j exceeds M and length
\* otherwise, j the last non-silent index.
C3_TrailingTrim ==
    (pc = "detected" /\ NonSilent # {}) =>
        IF (Len(audio_data) - 1 - LastNonSilent) * Md > Mn
        THEN result.end_trim = PyInt(LastNonSilent * Md + Mn, Md)
        ELSE result.end_trim = Len(audio_data)

\* C4: on a non-empty buffer whose samples are all silent detect_silence
\* returns without error and its bounds are (0, length).
C4_AllSilentNoTrim ==
    (pc # "call_detect" /\ Len(audio_data) > 0 /\ NonSilent = {}) =>
        /\ pc = "detected"
        /\ result.start_trim = 0
        /\ result.end_trim = Len(audio_data)

\* a silent stereo buffer of three frames, detected with M = 0
C4_Witness ==
    /\ pc = "detected"
    /\ Len(audio_data) = 3
    /\ Len(audio_data[1]) = 2
    /\ NonSilent = {}
    /\ Mn = 0
    /\ result.end_trim = 3

\* C5: on an empty buffer detect_silence returns without error, with the
\* bounds (0, 0).
C5_EmptyNoCrash ==
    (pc # "call_detect" /\ Len(audio_data) = 0) =>
        /\ pc = "detected"
        /\ result.start_trim = 0
        /\ result.end_trim = 0

\* C8: whenever detect_silence returns on a buffer with a non-silent sample,
\* every non-silent sample lies in [start_trim, end_trim).
C8_KeepsSound ==
    (pc = "detected" /\ NonSilent # {}) =>
        /\ result.start_trim <= FirstNonSilent
        /\ LastNonSilent < result.end_trim

\* C10: the bounds detect_silence returns on a non-empty buffer are integers
\* with 0 <= start_trim <= end_trim <= length.
C10_WellFormedBounds ==
    pc = "detected" =>
        /\ result.start_trim \in Int
        /\ result.end_trim \in Int
        /\ 0 <= result.start_trim
        /\ result.start_trim <= result.end_trim
        /\ result.end_trim <= Len(audio_data)

\* both edges trimmed: 0 < start_trim < end_trim < length
C10_Witness ==
    /\ pc = "detected"
    /\ 0 < result.start_trim
    /\ result.start_trim < result.end_trim
    /\ result.end_trim < Len(audio_data)

\* fade_length of the apply_fade call
L == FadeLength(fade_duration, sr)

\* C6: when apply_fade was given T frames with fade_length L >= 2 and
\* 2L <= T it returns normally; frame k < L has been multiplied by k/(L-1)
\* and frame T-L+k by 1 - k/(L-1), every channel alike; the frames in
\* [L, T-L) are unchanged; the first and the last frame are exactly 0.
C6_FadeEffect ==
    (pc # "call_fade" /\ L >= 2 /\ 2 * L <= Len(given)) =>
        LET T == Len(given) IN
        /\ pc = "faded"
        /\ Len(audio_data) = T
        /\ \A t \in 1..T : DOMAIN audio_data[t] = DOMAIN given[t]
        /\ \A k \in 0..(L - 1) : \A c \in DOMAIN given[1] :
              /\ RatEq(audio_data[k + 1][c], RatMul(given[k + 1][c], <<k, L - 1>>))
              /\ RatEq(audio_data[T - L + k + 1][c],
                       RatMul(given[T - L + k + 1][c], <<L - 1 - k, L - 1>>))
        /\ \A t \in (L + 1)..(T - L) : audio_data[t] = given[t]
        /\ \A c \in DOMAIN given[1] :
              audio_data[1][c][1] = 0 /\ audio_data[T][c][1] = 0

\* a stereo buffer of seven frames faded with fade_length 3
C6_Witness ==
    /\ pc = "faded"
    /\ L = 3
    /\ Len(given) = 7
    /\ Len(given[1]) = 2
    /\ audio_data[4] = given[4]
    /\ RatEq(audio_data[2][1], <<given[2][1][1], 2>>)

\* C7: apply_fade with fade_length 0 on a non-empty buffer returns without
\* error and leaves every sample unchanged.
C7_ZeroFadeIdentity ==
    (pc # "call_fade" /\ L = 0 /\ Len(given) > 0) =>
        /\ pc = "faded"
        /\ audio_data = given

\* C9: when the decoded buffer has at least 2*fade_length frames, the slice
\* process_wav_file passes to apply_fade has at least 2*fade_length frames.
C9_SliceMeetsPrecondition ==
    (pc = "fade" /\ Len(audio_data) >= 2 * L) => Len(trimmed_audio) >= 2 * L

\* entries of the listing already iterated whose name ends in .wav in any
\* letter case
WavName(name) ==
    name \in { <<"a", ".", "w", "a", "v">>,
               <<"b", ".", "W", "a", "V">>,
               <<"c", ".", "W", "A", "V">> }

\* what holds of the loop of process_folder after idx entries
C1_LoopState ==
    /\ calls = SelectSeq(SubSeq(listing, 1, idx), WavName)
    /\ Len(log) = Len(calls)
    /\ \A k \in 1..Len(log) :
          /\ log[k].file = calls[k]
          /\ log[k].ok => calls[k] \in outdir
    /\ pc = "done" => idx = Len(listing)

\* C1: once the listing is obtained process_folder terminates normally, and
\* throughout process_wav_file has been called exactly once, in listing
\* order, on each .wav entry (any letter case) iterated so far and on no
\* other entry, with one report per call naming its file, and every file
\* reported successful is in the output directory; at the end every entry
\* has been iterated.
C1_BatchNeverAborts ==
    /\ [](C1_LoopState)
    /\ (pc = "loop") ~> (pc = "done")

\* three .wav files, the second fails: the first and third are written
C1_Witness ==
    /\ pc = "done"
    /\ Len(listing) = 3
    /\ Len(log) = 3
    /\ log[1].ok /\ ~log[2].ok /\ log[3].ok
    /\ listing[1] \in outdir /\ listing[3] \in outdir
    /\ listing[2] \notin outdir

====
